---------------------------- MODULE Spec2Model ----------------------------
(***************************************************************************)
(* MavericK, MCMCobject_admixture: the collapsed Gibbs sampler of the      *)
(* admixture model, its alpha Metropolis step, the label alignment and the *)
(* driver loop perform_MCMC.                                               *)
(*                                                                         *)
(* Numbers.  Counts are integers.  alpha is a double in the code; here it  *)
(* is an integer number of grid steps of 1/AlphaDen, so that               *)
(* admixCounts+alpha is (AlphaDen*admixCounts + alpha)/AlphaDen exactly.   *)
(* pow(10,-300) is the least positive grid value.  Quotients are kept as   *)
(* pairs <<numerator, denominator>>, log(x) as the reduced fraction of x   *)
(* (log is injective), and pow(p,beta) as the pair of p with beta.         *)
(***************************************************************************)
EXTENDS Integers, Sequences, FiniteSets, Bags, TLC

VARIABLES
    \* inputs copied from globals by the constructor
    data, n, loci, J, ploidy_vec, beta,
    \* arguments of perform_MCMC / globals flags read by it
    fixLabels, fixAlpha_on, storeLoglike, drawAlleleFreqs, outputQmatrix_pop_on,
    \* sampler state
    linearGroup, groupIndex,
    alleleCounts, alleleCountsTotals, admixCounts, admixCountsTotals,
    alpha, probVec,
    \* the local alpha_new of alpha_update, 0 outside it
    alpha_new,
    \* Q matrices and label alignment
    Qmatrix_gene_new, logQmatrix_gene_new, logQmatrix_gene_running,
    logQmatrix_gene, bestPerm, bestPermOrder,
    \* likelihood and its running sums
    logLikeGroup,
    logLikeGroup_sum, logLikeGroup_sumSquared, logLikeGroup_store, harmonic,
    \* drawn frequencies and the joint likelihood
    alleleFreqs, admixFreqs, logLikeJoint, logLikeJoint_sum,
    logLikeJoint_sumSquared,
    \* the mean Q matrices finished at the end of perform_MCMC
    Qmatrix_gene, Qmatrix_ind, Qmatrix_pop,
    \* driver loop
    rep, thin, thinSwitch, nSweeps, pc,
    \* the calls made on the object: perform_MCMC calls that have returned,
    \* and the reset made since the last of them
    runsDone, lastReset,
    \* the second chain: the copy taken of the chain before a step that draws,
    \* the draws of that step, the state the first chain reached, and which of
    \* the two is running
    mode, tape, snap, goal

inputs == <<data, n, loci, J, ploidy_vec, beta, fixLabels, fixAlpha_on,
            storeLoglike, drawAlleleFreqs, outputQmatrix_pop_on>>
sums == <<logLikeGroup_sum, logLikeGroup_sumSquared, logLikeGroup_store, harmonic>>
counts == <<alleleCounts, alleleCountsTotals, admixCounts, admixCountsTotals>>
qvars  == <<Qmatrix_gene_new, logQmatrix_gene_new, logQmatrix_gene_running,
            logQmatrix_gene, bestPerm, bestPermOrder>>
loopvars == <<rep, thin, thinSwitch, nSweeps>>
joint == <<alleleFreqs, admixFreqs, logLikeJoint, logLikeJoint_sum,
           logLikeJoint_sumSquared>>
means == <<Qmatrix_gene, Qmatrix_ind, Qmatrix_pop>>
runvars == <<runsDone, lastReset>>
replayvars == <<mode, tape, snap, goal>>
vars == <<inputs, linearGroup, groupIndex, counts, alpha, alpha_new, probVec,
          qvars, logLikeGroup, sums, joint, means, loopvars, pc, runvars,
          replayvars>>

---------------------------------------------------------------------------
(* Bounds and program constants *)

\* number of demes of the chain (K = globals.Kmin + Kindex)
K == 3
\* allele-frequency prior pseudocount (lambda = globals.lambda)
lambda == 1
\* grid steps per unit of alpha
AlphaDen == 2
\* pow(10.0,-300.0) on the grid: the least positive value
Tiny == 1
\* the reflecting boundary 10, the wrap period 20 and the wrap range [-10,20]
AlphaMax == 10 * AlphaDen
AlphaPeriod == 20 * AlphaDen
AlphaWrapLo == (0 - 10) * AlphaDen
AlphaWrapHi == 20 * AlphaDen
\* the lengths of the chain (burnin = _burnin, samples = _samples,
\* thinning = _thinning)
burnin == 1
samples == 2
thinning == 2

Demes == 1..K

\* the datasets (n, loci, ploidy_vec, J, data): two haploid individuals with
\* different alleles; the same with every observation missing; one diploid
\* individual with one observation missing; one haploid individual, two loci;
\* one haploid individual, one locus
DataTwoInds ==
    [n |-> 2, loci |-> 1, ploidy_vec |-> <<1, 1>>, J |-> <<2>>,
     data |-> << << <<1>> >>, << <<2>> >> >>]
DataAllMissing ==
    [n |-> 2, loci |-> 1, ploidy_vec |-> <<1, 1>>, J |-> <<2>>,
     data |-> << << <<0>> >>, << <<0>> >> >>]
DataDiploid ==
    [n |-> 1, loci |-> 1, ploidy_vec |-> <<2>>, J |-> <<2>>,
     data |-> << << <<1, 0>> >> >>]
DataTwoLoci ==
    [n |-> 1, loci |-> 2, ploidy_vec |-> <<1>>, J |-> <<2, 1>>,
     data |-> << << <<2>>, <<1>> >> >>]
DataOneCopy ==
    [n |-> 1, loci |-> 1, ploidy_vec |-> <<1>>, J |-> <<2>>,
     data |-> << << <<1>> >> >>]
DataSets == {DataTwoInds, DataAllMissing, DataDiploid, DataTwoLoci, DataOneCopy}

\* beta as a fraction <<numerator, denominator>>
BetaOne == <<1, 1>>
BetaHalf == <<1, 2>>

\* the chains that are run: the dataset, beta, and the flags fixLabels,
\* fixAlpha_on, storeLoglike, drawAlleleFreqs and outputQmatrix_pop_on of each
Chains ==
    { [d |-> DataTwoInds,    beta |-> BetaOne,  fixLabels |-> TRUE,  fixAlpha_on |-> 1,
         storeLoglike |-> TRUE, drawAlleleFreqs |-> FALSE,
         outputQmatrix_pop_on |-> TRUE],
      [d |-> DataTwoInds,    beta |-> BetaHalf, fixLabels |-> FALSE, fixAlpha_on |-> 0,
         storeLoglike |-> FALSE, drawAlleleFreqs |-> FALSE,
         outputQmatrix_pop_on |-> FALSE],
      [d |-> DataAllMissing, beta |-> BetaHalf, fixLabels |-> TRUE,  fixAlpha_on |-> 0,
         storeLoglike |-> TRUE, drawAlleleFreqs |-> FALSE,
         outputQmatrix_pop_on |-> FALSE],
      [d |-> DataAllMissing, beta |-> BetaOne,  fixLabels |-> FALSE, fixAlpha_on |-> 1,
         storeLoglike |-> FALSE, drawAlleleFreqs |-> FALSE,
         outputQmatrix_pop_on |-> FALSE],
      [d |-> DataDiploid,    beta |-> BetaHalf, fixLabels |-> TRUE,  fixAlpha_on |-> 1,
         storeLoglike |-> TRUE, drawAlleleFreqs |-> FALSE,
         outputQmatrix_pop_on |-> TRUE],
      [d |-> DataTwoLoci,    beta |-> BetaOne,  fixLabels |-> FALSE, fixAlpha_on |-> 1,
         storeLoglike |-> FALSE, drawAlleleFreqs |-> TRUE,
         outputQmatrix_pop_on |-> FALSE] }

---------------------------------------------------------------------------
(* Gene-copy enumeration: individuals, then loci, then ploidy slots *)

CopiesOfInd(pl, lo, i) ==
    [x \in 1..(lo * pl[i]) |->
        <<i, ((x - 1) \div pl[i]) + 1, ((x - 1) % pl[i]) + 1>>]

RECURSIVE CopiesUpTo(_, _, _)
CopiesUpTo(pl, lo, i) ==
    IF i = 0 THEN <<>> ELSE CopiesUpTo(pl, lo, i - 1) \o CopiesOfInd(pl, lo, i)

\* the gene copies of every dataset shape, computed once
CopiesTable ==
    [s \in {<<d.ploidy_vec, d.loci>> : d \in DataSets} |->
        CopiesUpTo(s[1], s[2], Len(s[1]))]

\* the (ind, l, p) of every groupIndex, in the order of the nested loops
Copies == CopiesTable[<<ploidy_vec, loci>>]
geneCopies == Len(Copies)
Obs(g) == data[Copies[g][1]][Copies[g][2]][Copies[g][3]]

RECURSIVE SumSeq(_)
SumSeq(s) == IF s = <<>> THEN 0 ELSE Head(s) + SumSeq(Tail(s))

RECURSIVE GCD(_, _)
GCD(a, b) == IF b = 0 THEN a ELSE GCD(b, a % b)

RECURSIVE GCDSeq(_)
GCDSeq(s) == IF s = <<>> THEN 0 ELSE GCD(Head(s), GCDSeq(Tail(s)))

\* log(num/den) as the fraction in lowest terms: <<0, 1>> is log(0) =
\* -infinity, <<1, 0>> is +infinity, and <<0, 0>> a value that was never
\* assigned or is not a number
Log(num, den) ==
    IF num = 0 /\ den = 0 THEN <<0, 0>>
    ELSE IF num = 0 THEN <<0, 1>>
    ELSE IF den = 0 THEN <<1, 0>>
    ELSE LET g == GCD(num, den) IN <<num \div g, den \div g>>

\* a double member the constructor leaves unassigned
Indeterminate == <<0, 0>>

\* the fraction num/den in lowest terms, den > 0
Frac(num, den) ==
    IF num = 0 THEN <<0, 1>>
    ELSE LET g == GCD(num, den) IN <<num \div g, den \div g>>

MulFrac(x, y) == Frac(x[1] * y[1], x[2] * y[2])
AddFrac(x, y) == Frac(x[1] * y[2] + y[1] * x[2], x[2] * y[2])

RECURSIVE SumFracSeq(_)
SumFracSeq(s) == IF s = <<>> THEN <<0, 1>> ELSE AddFrac(Head(s), SumFracSeq(Tail(s)))

\* the bag of the entries of a sequence
RECURSIVE BagOfSeq(_)
BagOfSeq(vs) ==
    IF vs = <<>> THEN EmptyBag ELSE SetToBag({Head(vs)}) (+) BagOfSeq(Tail(vs))

---------------------------------------------------------------------------
(* Count tensors *)

ZeroAlleleCounts == [k \in Demes |-> [l \in 1..loci |-> [j \in 1..J[l] |-> 0]]]
ZeroAlleleCountsTotals == [k \in Demes |-> [l \in 1..loci |-> 0]]
ZeroAdmixCounts == [i \in 1..n |-> [k \in Demes |-> 0]]
ZeroAdmixCountsTotals == [i \in 1..n |-> 0]

\* variant of AlleleCountsAdd: the decrement of group_update is left out
AlleleCountsAdd_NoDecrement(ac, k, l, a, d) ==
    [ac EXCEPT ![k][l][a] = @ + (IF d < 0 THEN 0 ELSE d)]

\* variant of AdmixCountsTotalsAdd: the decrement of group_update is left out
AdmixCountsTotalsAdd_NoDecrement(adt, i, d) ==
    [adt EXCEPT ![i] = @ + (IF d < 0 THEN 0 ELSE d)]

\* variant of AdmixCountsAdd: the decrement of group_update takes two
AdmixCountsAdd_DoubleDecrement(adc, i, k, d) ==
    [adc EXCEPT ![i][k] = @ + (IF d < 0 THEN 2 * d ELSE d)]

\* alleleCounts[k-1][l][a-1] += d
AlleleCountsAdd(ac, k, l, a, d) == [ac EXCEPT ![k][l][a] = @ + d]
\* alleleCountsTotals[k-1][l] += d
AlleleCountsTotalsAdd(act, k, l, d) == [act EXCEPT ![k][l] = @ + d]
\* admixCounts[ind][k-1] += d
AdmixCountsAdd(adc, i, k, d) == [adc EXCEPT ![i][k] = @ + d]
\* admixCountsTotals[ind] += d
AdmixCountsTotalsAdd(adt, i, d) == [adt EXCEPT ![i] = @ + d]

\* the populate loop of reset: one pass over the gene copies, g = 1..upto
RECURSIVE Populate(_, _)
Populate(grp, upto) ==
    IF upto = 0
    THEN [ac |-> ZeroAlleleCounts, act |-> ZeroAlleleCountsTotals,
          adc |-> ZeroAdmixCounts, adt |-> ZeroAdmixCountsTotals]
    ELSE LET prev == Populate(grp, upto - 1)
             i == Copies[upto][1]
             l == Copies[upto][2]
         IN  IF Obs(upto) # 0
             THEN [ac |-> AlleleCountsAdd(prev.ac, grp[upto], l, Obs(upto), 1),
                   act |-> AlleleCountsTotalsAdd(prev.act, grp[upto], l, 1),
                   adc |-> AdmixCountsAdd(prev.adc, i, grp[upto], 1),
                   adt |-> AdmixCountsTotalsAdd(prev.adt, i, 1)]
             ELSE prev

---------------------------------------------------------------------------
(* Weights of the categorical draw *)

\* variant of Weight: a missing observation gets the allele factor of an
\* allele nobody carries, lambda / (alleleCountsTotals + J lambda), to the beta
Weight_MissingAsAllele(ac, act, adc, al, g, k) ==
    LET i == Copies[g][1]
        l == Copies[g][2]
    IN  [adm |-> AlphaDen * adc[i][k] + al,
         pn |-> (IF Obs(g) = 0 THEN 0 ELSE ac[k][l][Obs(g)]) + lambda,
         pd |-> act[k][l] + J[l] * lambda,
         pw |-> IF beta # BetaOne THEN beta ELSE BetaOne]

\* probVec[k] of group_update for gene copy g: (admixCounts+alpha) in grid
\* steps, the allele factor pn/pd and the exponent applied to it
Weight(ac, act, adc, al, g, k) ==
    LET i == Copies[g][1]
        l == Copies[g][2]
    IN  IF Obs(g) = 0
        THEN [adm |-> AlphaDen * adc[i][k] + al, pn |-> 1, pd |-> 1,
              pw |-> BetaOne]
        ELSE [adm |-> AlphaDen * adc[i][k] + al,
              pn |-> ac[k][l][Obs(g)] + lambda,
              pd |-> act[k][l] + J[l] * lambda,
              pw |-> IF beta # BetaOne THEN beta ELSE BetaOne]

\* whether the weight is a positive number
WeightPositive(w) == w.adm > 0 /\ w.pn > 0 /\ w.pd > 0

\* sample1(probVec, probVecSum): a deme whose weight is positive
Sample1(pv) == {k \in Demes : WeightPositive(pv[k])}

---------------------------------------------------------------------------
(* Construction and reset *)

ZeroAlleleFreqs ==
    [k \in Demes |-> [l \in 1..loci |-> [j \in 1..J[l] |-> <<0, 1>>]]]
ZeroAdmixFreqs == [i \in 1..n |-> [k \in Demes |-> <<0, 1>>]]
\* Qmatrix_gene with every entry 0 = exp(log(0))
ZeroMean == [logQ |-> [base |-> Log(0, 1), added |-> 0], over |-> 1]
ZeroQ == [g \in 1..geneCopies |-> [k \in Demes |-> <<0, 1>>]]
ZeroLogQ == [g \in 1..geneCopies |-> [k \in Demes |-> Log(1, 1)]]

\* no draws are held, no copy of the chain is held
NoTape == [r |-> FALSE, grp |-> <<>>, k1 |-> 0, prop |-> 0, accept |-> FALSE,
           bp |-> <<>>, u |-> "one"]
NoSnap == [pc |-> "none"]

\* the constructor, and the arguments perform_MCMC will be given, for chain c
InitChain(c) ==
    /\ data = c.d.data /\ n = c.d.n /\ loci = c.d.loci /\ J = c.d.J
    /\ ploidy_vec = c.d.ploidy_vec
    /\ beta = c.beta
    /\ fixLabels = c.fixLabels
    /\ fixAlpha_on = c.fixAlpha_on
    /\ storeLoglike = c.storeLoglike
    /\ linearGroup = [g \in 1..geneCopies |-> 0]
    /\ groupIndex = -1
    /\ alleleCounts = ZeroAlleleCounts
    /\ alleleCountsTotals = ZeroAlleleCountsTotals
    /\ admixCounts = ZeroAdmixCounts
    /\ admixCountsTotals = ZeroAdmixCountsTotals
    /\ outputQmatrix_pop_on = c.outputQmatrix_pop_on
    /\ drawAlleleFreqs = c.drawAlleleFreqs
    /\ alpha = AlphaDen
    /\ alpha_new = 0
    /\ alleleFreqs = ZeroAlleleFreqs
    /\ admixFreqs = ZeroAdmixFreqs
    /\ logLikeJoint = SetToBag({Indeterminate})
    /\ logLikeJoint_sum = SetToBag({Indeterminate})
    /\ logLikeJoint_sumSquared = SetToBag({SetToBag({Indeterminate})})
    /\ Qmatrix_gene = ZeroMean
    /\ Qmatrix_ind = <<>>
    /\ Qmatrix_pop = <<>>
    /\ runsDone = 0
    /\ lastReset = "none"
    /\ mode = "live"
    /\ tape = NoTape
    /\ snap = NoSnap
    /\ goal = NoSnap
    /\ probVec = [k \in Demes |-> [adm |-> 0, pn |-> 0, pd |-> 1, pw |-> BetaOne]]
    /\ Qmatrix_gene_new = ZeroQ
    /\ logQmatrix_gene_new = ZeroLogQ
    /\ logQmatrix_gene_running = [base |-> Log(1, 1), added |-> 0]
    /\ logQmatrix_gene = [base |-> Log(1, 1), added |-> 0]
    /\ bestPerm = [k \in 0..(K - 1) |-> 0]
    /\ bestPermOrder = [k \in 0..(K - 1) |-> 0]
    /\ logLikeGroup = Log(1, 1)
    /\ logLikeGroup_sum = Indeterminate
    /\ logLikeGroup_sumSquared = SetToBag({Indeterminate})
    /\ logLikeGroup_store = <<>>
    /\ harmonic = Indeterminate
    /\ rep = 0 /\ thin = 0 /\ thinSwitch = 1 /\ nSweeps = 0
    /\ pc = "constructed"

Init == \E c \in Chains : InitChain(c)

\* variant of ResetHarmonic: reset leaves harmonic as it is
ResetHarmonic_Kept == harmonic

\* line 116: harmonic = log(double(0))
ResetHarmonic == Log(0, 1)

\* reset(reset_Qmatrix_running), lines 106-170.  The sums of the joint
\* likelihood are kept as bags of the terms added; Qmatrix_ind and Qmatrix_pop
\* as the sequence of the matrices added into them since they were zeroed
\* with grp the K-valued draws of lines 131-141
ResetWith(reset_Qmatrix_running, grp) ==
    /\ LET c == Populate(grp, geneCopies)
       IN  /\ linearGroup' = grp
           /\ alleleCounts' = c.ac
           /\ alleleCountsTotals' = c.act
           /\ admixCounts' = c.adc
           /\ admixCountsTotals' = c.adt
    /\ groupIndex' = geneCopies - 1
    /\ logLikeGroup' = Log(1, 1)
    /\ logLikeGroup_sum' = Log(1, 1)
    /\ logLikeGroup_store' = [i \in 1..samples |-> Log(1, 1)]
    /\ logLikeGroup_sumSquared' = EmptyBag
    /\ logLikeJoint' = EmptyBag
    /\ logLikeJoint_sum' = EmptyBag
    /\ logLikeJoint_sumSquared' = EmptyBag
    /\ harmonic' = ResetHarmonic
    /\ logQmatrix_gene_new' = ZeroLogQ
    /\ Qmatrix_gene_new' = ZeroQ
    /\ logQmatrix_gene_running' =
          IF reset_Qmatrix_running THEN [base |-> Log(1, K), added |-> 0]
          ELSE logQmatrix_gene_running
    /\ logQmatrix_gene' = [base |-> Log(0, 1), added |-> 0]
    /\ Qmatrix_gene' = ZeroMean
    /\ Qmatrix_ind' = <<>>
    /\ Qmatrix_pop' = <<>>
    /\ lastReset' = IF reset_Qmatrix_running THEN "true" ELSE "false"
    /\ pc' = "ready"
    /\ UNCHANGED <<inputs, replayvars, alleleFreqs, admixFreqs, alpha, alpha_new, probVec,
                   bestPerm, bestPermOrder, loopvars, runsDone>>

ResetBody(reset_Qmatrix_running) ==
    \E grp \in [1..geneCopies -> Demes] : ResetWith(reset_Qmatrix_running, grp)

\* reset is called on the constructed object
Reset(reset_Qmatrix_running) ==
    /\ pc = "constructed"
    /\ ResetBody(reset_Qmatrix_running)

---------------------------------------------------------------------------
(* group_update: one gene copy at a time *)

\* lines 324-348: take the copy out of the counts and compute probVec
GroupUpdate_Detach ==
    /\ pc = "group_update"
    /\ groupIndex + 1 < geneCopies
    /\ LET g == groupIndex + 2
           i == Copies[g][1]
           l == Copies[g][2]
           k0 == linearGroup[g]
           ac == IF Obs(g) # 0 THEN AlleleCountsAdd(alleleCounts, k0, l, Obs(g), -1)
                 ELSE alleleCounts
           act == IF Obs(g) # 0 THEN AlleleCountsTotalsAdd(alleleCountsTotals, k0, l, -1)
                  ELSE alleleCountsTotals
           adc == IF Obs(g) # 0 THEN AdmixCountsAdd(admixCounts, i, k0, -1)
                  ELSE admixCounts
           adt == IF Obs(g) # 0 THEN AdmixCountsTotalsAdd(admixCountsTotals, i, -1)
                  ELSE admixCountsTotals
       IN  /\ groupIndex' = groupIndex + 1
           /\ alleleCounts' = ac
           /\ alleleCountsTotals' = act
           /\ admixCounts' = adc
           /\ admixCountsTotals' = adt
           /\ probVec' = [k \in Demes |-> Weight(ac, act, adc, alpha, g, k)]
    /\ pc' = "group_draw"
    /\ UNCHANGED <<inputs, replayvars, joint, means, alpha_new, runvars,
                   sums, linearGroup, alpha, qvars, logLikeGroup, loopvars>>

\* lines 351-360: the copy takes the deme k1 that sample1 returned and is put
\* back into the counts
AttachTo(k1) ==
    /\ pc = "group_draw"
    /\ LET g == groupIndex + 1
           i == Copies[g][1]
           l == Copies[g][2]
       IN  /\ linearGroup' = [linearGroup EXCEPT ![g] = k1]
           /\ IF Obs(g) # 0
              THEN /\ alleleCounts' = AlleleCountsAdd(alleleCounts, k1, l, Obs(g), 1)
                   /\ alleleCountsTotals' =
                         AlleleCountsTotalsAdd(alleleCountsTotals, k1, l, 1)
                   /\ admixCounts' = AdmixCountsAdd(admixCounts, i, k1, 1)
                   /\ admixCountsTotals' = AdmixCountsTotalsAdd(admixCountsTotals, i, 1)
              ELSE UNCHANGED counts
    /\ pc' = "group_update"
    /\ UNCHANGED <<inputs, replayvars, joint, means, alpha_new, runvars,
                   sums, groupIndex, alpha, probVec, qvars, logLikeGroup, loopvars>>

\* variant of GroupUpdate_AttachWith: the deme does not come from the draw
\* handed to the chain but from a generator that other chains draw from too
GroupUpdate_AttachWith_SharedDraw(k1) ==
    \E k \in Sample1(probVec) : AttachTo(k)

\* line 351: linearGroup[groupIndex] = sample1(probVec, probVecSum), given
\* the draw
GroupUpdate_AttachWith(k1) == AttachTo(k1)

\* lines 350-360: draw the new deme and put the copy back into the counts
GroupUpdate_Attach ==
    \E k1 \in Sample1(probVec) : GroupUpdate_AttachWith(k1)

\* line 365: the sweep is over; perform_MCMC line 188 goes on to alpha_update
\* when alpha is not fixed, and else to the next turn of the thinning loop
GroupUpdate_End ==
    /\ pc = "group_update"
    /\ groupIndex + 1 = geneCopies
    /\ IF fixAlpha_on = 0
       THEN pc' = "alpha_update" /\ thin' = thin
       ELSE pc' = "thin_loop" /\ thin' = thin + 1
    /\ UNCHANGED <<inputs, replayvars, joint, means, alpha_new, runvars,
                   sums, linearGroup, groupIndex, counts, alpha, probVec, qvars,
                   logLikeGroup, rep, thinSwitch, nSweeps>>

---------------------------------------------------------------------------
(* alpha_update *)

\* the values rnorm1(alpha, alphaPropSD) is drawn from, in units of alpha
AlphaProposals ==
    {p * AlphaDen : p \in {-41, -20, -10, -1, 0, 1, 10, 19, 20, 30, 39, 40}}

\* while (alpha_new < -10) alpha_new += 20
RECURSIVE WrapUp(_)
WrapUp(x) == IF x < AlphaWrapLo THEN WrapUp(x + AlphaPeriod) ELSE x

\* while (alpha_new > 20) alpha_new -= 20
RECURSIVE WrapDown(_)
WrapDown(x) == IF x > AlphaWrapHi THEN WrapDown(x - AlphaPeriod) ELSE x

\* lines 410-422: reflect off the boundaries at 0 and 10
Reflect(x) ==
    IF x < 0 \/ x > AlphaMax
    THEN LET w == WrapDown(WrapUp(x))
             f == IF w < 0 THEN 0 - w ELSE w
         IN  IF f > AlphaMax THEN AlphaPeriod - f ELSE f
    ELSE x

\* variant of NonZero: a proposal of 0 is kept
NonZero_Skip(x) == x

\* lines 425-427: alpha_new is never exactly 0
NonZero(x) == IF x = 0 THEN Tiny ELSE x

\* alpha_update: the proposal, its reflection and the Metropolis step, whose
\* outcome runif1(0,1) < exp(logProb_new - logProb_old) is either one
AlphaUpdateWith(prop, accept) ==
    /\ pc = "alpha_update"
    /\ LET new == NonZero(Reflect(prop))
       IN  alpha' = IF accept THEN new ELSE alpha
    /\ thin' = thin + 1
    /\ pc' = "thin_loop"
    /\ UNCHANGED <<inputs, replayvars, joint, means, alpha_new, runvars,
                   sums, linearGroup, groupIndex, counts, probVec, qvars,
                   logLikeGroup, rep, thinSwitch, nSweeps>>

AlphaUpdate ==
    \E prop \in AlphaProposals, accept \in BOOLEAN : AlphaUpdateWith(prop, accept)

---------------------------------------------------------------------------
(* produceQmatrix *)

\* probVec[k] of produceQmatrix (no beta): adm * pn / pd, adm in grid steps
QWeight(ac, act, adc, al, g, k) ==
    LET i == Copies[g][1]
        l == Copies[g][2]
    IN  IF Obs(g) = 0
        THEN [adm |-> AlphaDen * adc[i][k] + al, pn |-> 1, pd |-> 1]
        ELSE [adm |-> AlphaDen * adc[i][k] + al,
              pn |-> ac[k][l][Obs(g)] + lambda,
              pd |-> act[k][l] + J[l] * lambda]

RECURSIVE ProdSeq(_)
ProdSeq(s) == IF s = <<>> THEN 1 ELSE Head(s) * ProdSeq(Tail(s))

\* variant of QRow: probVecSum leaves out the weight of the last deme
QRow_ShortSum(ac, act, adc, al, g) ==
    LET w == [k \in Demes |-> QWeight(ac, act, adc, al, g, k)]
        num == [k \in Demes |->
                  w[k].adm * w[k].pn
                    * ProdSeq([m \in Demes |-> IF m = k THEN 1 ELSE w[m].pd])]
        den == SumSeq(num) - num[K]
        gg == GCD(GCDSeq(num), den)
    IN  [k \in Demes |-> <<num[k] \div gg, den \div gg>>]

\* probVec[k]/probVecSum for every k, over one denominator, in lowest terms
QRow(ac, act, adc, al, g) ==
    LET w == [k \in Demes |-> QWeight(ac, act, adc, al, g, k)]
        num == [k \in Demes |->
                  w[k].adm * w[k].pn
                    * ProdSeq([m \in Demes |-> IF m = k THEN 1 ELSE w[m].pd])]
        den == SumSeq(num)
        gg == GCDSeq(num)
    IN  [k \in Demes |-> <<num[k] \div gg, den \div gg>>]

\* logQmatrix_gene_new[g][k] = log(Qmatrix_gene_new[g][k])
LogRow(qrow) == [k \in Demes |-> Log(qrow[k][1], qrow[k][2])]

\* variant of ProduceQmatrix: as group_update does, the first gene copy is
\* taken out of admixCounts before the rows are computed
ProduceQmatrix_Detaching ==
    /\ pc = "produceQmatrix"
    /\ LET adc == AdmixCountsAdd(admixCounts, Copies[1][1], linearGroup[1], -1)
           q == [g \in 1..geneCopies |->
                   QRow(alleleCounts, alleleCountsTotals, admixCounts, alpha, g)]
       IN  /\ admixCounts' = adc
           /\ Qmatrix_gene_new' = q
           /\ logQmatrix_gene_new' = [g \in 1..geneCopies |-> LogRow(q[g])]
    /\ groupIndex' = geneCopies - 1
    /\ pc' = "chooseBestLabelPermutation"
    /\ UNCHANGED <<inputs, replayvars, joint, means, alpha_new, runvars, sums, linearGroup,
                   alleleCounts, alleleCountsTotals, admixCountsTotals, alpha,
                   probVec, logQmatrix_gene_running, logQmatrix_gene, bestPerm,
                   bestPermOrder, logLikeGroup, loopvars>>

\* produceQmatrix, lines 512-539
ProduceQmatrix ==
    /\ pc = "produceQmatrix"
    /\ LET q == [g \in 1..geneCopies |->
                   QRow(alleleCounts, alleleCountsTotals, admixCounts, alpha, g)]
       IN  /\ Qmatrix_gene_new' = q
           /\ logQmatrix_gene_new' = [g \in 1..geneCopies |-> LogRow(q[g])]
    /\ groupIndex' = geneCopies - 1
    /\ pc' = "chooseBestLabelPermutation"
    /\ UNCHANGED <<inputs, replayvars, joint, means, alpha_new, runvars,
                   sums, linearGroup, counts, alpha, probVec,
                   logQmatrix_gene_running, logQmatrix_gene, bestPerm,
                   bestPermOrder, logLikeGroup, loopvars>>

---------------------------------------------------------------------------
(* chooseBestLabelPermutation *)

\* hungarian(costMat, ...): a permutation of the labels 0..K-1
Hungarian ==
    {f \in [0..(K - 1) -> 0..(K - 1)] : \A j \in 0..(K - 1) : \E k \in 0..(K - 1) : f[k] = j}

\* lines 467-468: for k = 0..K-1 in turn, bestPermOrder[bestPerm[k]] = k
OrderOf(bp, old) ==
    [j \in 0..(K - 1) |->
        IF \E k \in 0..(K - 1) : bp[k] = j
        THEN CHOOSE k \in 0..(K - 1) :
                 bp[k] = j /\ \A k2 \in 0..(K - 1) : bp[k2] = j => k2 <= k
        ELSE old[j]]

\* lines 469-470
PerformSwap(bp) == \E k \in 0..(K - 1) : bp[k] # k

\* line 478: linearGroup[i] = bestPerm[linearGroup[i]-1]+1
RelabelGroup(grp, bp) == [g \in DOMAIN grp |-> bp[grp[g] - 1] + 1]

\* the label that order sends to k: the permutation that order inverts
InverseAt(order, k) == CHOOSE j \in 0..(K - 1) : order[j] = k

\* variant of PermuteAlleleCounts: no old_ copy is taken, the rows are
\* overwritten in place for k = 1..K in turn
RECURSIVE InPlaceRows(_, _, _)
InPlaceRows(a, order, k) ==
    IF k > K THEN a
    ELSE InPlaceRows([a EXCEPT ![k] = a[order[k - 1] + 1]], order, k + 1)

PermuteAlleleCounts_InPlace(old, order) == InPlaceRows(old, order, 1)

\* variant of PermuteAlleleCountsTotals: indexed by bestPerm, not bestPermOrder
PermuteAlleleCountsTotals_ByPerm(old, order) ==
    [k \in Demes |-> old[InverseAt(order, k - 1) + 1]]

\* variant of PermuteAdmixCounts: indexed by bestPerm, not bestPermOrder
PermuteAdmixCounts_ByPerm(old, order) ==
    [i \in DOMAIN old |-> [k \in Demes |-> old[i][InverseAt(order, k - 1) + 1]]]

\* variant of PermuteLogQ: indexed by bestPerm, not bestPermOrder
PermuteLogQ_ByPerm(old, order) ==
    [g \in DOMAIN old |-> [k \in Demes |-> old[g][InverseAt(order, k - 1) + 1]]]

\* lines 482-485: alleleCounts[k] = old_alleleCounts[bestPermOrder[k]]
PermuteAlleleCounts(old, order) == [k \in Demes |-> old[order[k - 1] + 1]]

\* lines 483-486: alleleCountsTotals[k] = old_alleleCountsTotals[bestPermOrder[k]]
PermuteAlleleCountsTotals(old, order) == [k \in Demes |-> old[order[k - 1] + 1]]

\* lines 490-495: admixCounts[i][k] = old_admixCounts[i][bestPermOrder[k]]
PermuteAdmixCounts(old, order) ==
    [i \in DOMAIN old |-> [k \in Demes |-> old[i][order[k - 1] + 1]]]

\* lines 498-503: logQmatrix_gene_new[i][k] = logQmatrix_gene_old[i][bestPermOrder[k]]
PermuteLogQ(old, order) ==
    [g \in DOMAIN old |-> [k \in Demes |-> old[g][order[k - 1] + 1]]]

\* lines 465-505: bestPermOrder, and the relabelling when bestPerm is not the
\* identity
RelabelBy(bp) ==
    LET order == OrderOf(bp, bestPermOrder)
    IN  /\ bestPerm' = bp
        /\ bestPermOrder' = order
        /\ IF PerformSwap(bp)
           THEN /\ linearGroup' = RelabelGroup(linearGroup, bp)
                /\ alleleCounts' = PermuteAlleleCounts(alleleCounts, order)
                /\ alleleCountsTotals' =
                      PermuteAlleleCountsTotals(alleleCountsTotals, order)
                /\ admixCounts' = PermuteAdmixCounts(admixCounts, order)
                /\ logQmatrix_gene_new' = PermuteLogQ(logQmatrix_gene_new, order)
           ELSE UNCHANGED <<linearGroup, alleleCounts, alleleCountsTotals,
                            admixCounts, logQmatrix_gene_new>>

\* variant of ApplyBestPerm: the alignment also folds logQmatrix_gene_new into
\* logQmatrix_gene_running
ApplyBestPerm_UpdatesRunning(bp) ==
    /\ RelabelBy(bp)
    /\ logQmatrix_gene_running' = [logQmatrix_gene_running EXCEPT !.added = @ + 1]
    /\ pc' = "updateQmatrix"
    /\ UNCHANGED <<inputs, replayvars, joint, means, alpha_new, runvars,
                   sums, groupIndex, admixCountsTotals, alpha, probVec,
                   Qmatrix_gene_new, logQmatrix_gene, logLikeGroup, loopvars>>

\* lines 465-507: what chooseBestLabelPermutation does with the bestPerm that
\* hungarian returned
ApplyBestPerm(bp) ==
    /\ RelabelBy(bp)
    /\ pc' = "updateQmatrix"
    /\ UNCHANGED <<inputs, replayvars, joint, means, alpha_new, runvars,
                   sums, groupIndex, admixCountsTotals, alpha, probVec,
                   Qmatrix_gene_new, logQmatrix_gene_running, logQmatrix_gene,
                   logLikeGroup, loopvars>>

ChooseBestLabelPermutation ==
    /\ pc = "chooseBestLabelPermutation"
    /\ \E bp \in Hungarian : ApplyBestPerm(bp)

---------------------------------------------------------------------------
(* updateQmatrix, storeQmatrix *)

\* variant of StoreDue: the first iteration after the burn-in is not stored
StoreDue_Late(r) == r > burnin

\* lines 205-206: if (rep>=burnin) storeQmatrix()
StoreDue(r) == r >= burnin

\* updateQmatrix: logSum of logQmatrix_gene_new into logQmatrix_gene_running;
\* the running matrix is kept as its start value and the number of terms added
UpdateQmatrix ==
    /\ pc = "updateQmatrix"
    /\ logQmatrix_gene_running' =
          [logQmatrix_gene_running EXCEPT !.added = @ + 1]
    /\ pc' = IF StoreDue(rep) THEN "storeQmatrix" ELSE "d_logLikeGroup"
    /\ UNCHANGED <<inputs, replayvars, joint, means, alpha_new, runvars,
                   sums, linearGroup, groupIndex, counts, alpha, probVec,
                   Qmatrix_gene_new, logQmatrix_gene_new, logQmatrix_gene,
                   bestPerm, bestPermOrder, logLikeGroup, loopvars>>

\* storeQmatrix: logSum of logQmatrix_gene_new into logQmatrix_gene
StoreQmatrix ==
    /\ pc = "storeQmatrix"
    /\ logQmatrix_gene' = [logQmatrix_gene EXCEPT !.added = @ + 1]
    /\ groupIndex' = geneCopies - 1
    /\ pc' = "d_logLikeGroup"
    /\ UNCHANGED <<inputs, replayvars, joint, means, alpha_new, runvars,
                   sums, linearGroup, counts, alpha, probVec,
                   Qmatrix_gene_new, logQmatrix_gene_new, logQmatrix_gene_running,
                   bestPerm, bestPermOrder, logLikeGroup, loopvars>>

---------------------------------------------------------------------------
(* d_logLikeGroup *)

\* lgamma(x + c) - lgamma(x) = log(x (x+1) ... (x+c-1)) for an integer c >= 0
RECURSIVE Rising(_, _)
Rising(x, c) == IF c <= 0 THEN 1 ELSE (x + c - 1) * Rising(x, c - 1)

\* exp(logLikeGroup) as a fraction: over k, l the product of
\* prod_j Gamma(lambda + alleleCounts[k][l][j]) / Gamma(lambda) and of
\* Gamma(J[l] lambda) / Gamma(J[l] lambda + alleleCountsTotals[k][l])
LikeGroup(ac, act) ==
    <<ProdSeq([k \in Demes |->
         ProdSeq([l \in 1..loci |->
            ProdSeq([j \in 1..J[l] |-> Rising(lambda, ac[k][l][j])])])]),
      ProdSeq([k \in Demes |->
         ProdSeq([l \in 1..loci |-> Rising(J[l] * lambda, act[k][l])])])>>

D_logLikeGroupValue(ac, act) == Log(LikeGroup(ac, act)[1], LikeGroup(ac, act)[2])

D_logLikeGroup ==
    /\ pc = "d_logLikeGroup"
    /\ logLikeGroup' = D_logLikeGroupValue(alleleCounts, alleleCountsTotals)
    /\ pc' = IF drawAlleleFreqs THEN "drawFreqs" ELSE "accumulate"
    /\ UNCHANGED <<inputs, replayvars, joint, means, alpha_new, runvars,
                   sums, linearGroup, groupIndex, counts, alpha, probVec, qvars,
                   loopvars>>

---------------------------------------------------------------------------
(* drawFreqs, d_logLikeJoint *)

\* rgamma1(shape, 1.0): a positive number; here 1, or the shape itself (the
\* mean of the distribution), the same choice for every draw of one call
GammaDraws == {"one", "shape"}

\* lines 373-385: alleleFreqs[k][l][j] = rgamma1(alleleCounts[k][l][j]+lambda)
\* over the sum of the draws of (k, l)
DrawnAlleleFreqs(u, ac) ==
    [k \in Demes |-> [l \in 1..loci |-> [j \in 1..J[l] |->
        IF u = "one" THEN Frac(1, J[l])
        ELSE Frac(ac[k][l][j] + lambda,
                  SumSeq([m \in 1..J[l] |-> ac[k][l][m] + lambda]))]]]

\* lines 388-397: admixFreqs[i][k] = rgamma1(admixCounts[i][k]+alpha) over the
\* sum of the draws of i
DrawnAdmixFreqs(u, adc, al) ==
    [i \in 1..n |-> [k \in Demes |->
        IF u = "one" THEN Frac(1, K)
        ELSE Frac(AlphaDen * adc[i][k] + al,
                  SumSeq([m \in Demes |-> AlphaDen * adc[i][m] + al]))]]

DrawFreqsWith(u) ==
    /\ pc = "drawFreqs"
    /\ alleleFreqs' = DrawnAlleleFreqs(u, alleleCounts)
    /\ admixFreqs' = DrawnAdmixFreqs(u, admixCounts, alpha)
    /\ pc' = "d_logLikeJoint"
    /\ UNCHANGED <<inputs, replayvars, logLikeJoint, logLikeJoint_sum, logLikeJoint_sumSquared,
                   means, alpha_new, runvars, sums, linearGroup, groupIndex,
                   counts, alpha, probVec, qvars, logLikeGroup, loopvars>>

DrawFreqs == \E u \in GammaDraws : DrawFreqsWith(u)

\* lines 599-613: the terms log(temp1) of logLikeJoint, one for each
\* observation that is not missing, temp1 = sum_k admixFreqs[i][k] *
\* alleleFreqs[k][l][data-1]; the sum is kept as the bag of its terms
D_logLikeJointValue(af, mf) ==
    LET seen == {g \in 1..geneCopies : Obs(g) # 0}
        temp1(g) == SumFracSeq([k \in Demes |->
                        MulFrac(mf[Copies[g][1]][k], af[k][Copies[g][2]][Obs(g)])])
        term(g) == Log(temp1(g)[1], temp1(g)[2])
        terms == {term(g) : g \in seen}
    IN  [t \in terms |-> Cardinality({g \in seen : term(g) = t})]

D_logLikeJoint ==
    /\ pc = "d_logLikeJoint"
    /\ logLikeJoint' = D_logLikeJointValue(alleleFreqs, admixFreqs)
    /\ pc' = "accumulate"
    /\ UNCHANGED <<inputs, replayvars, alleleFreqs, admixFreqs, logLikeJoint_sum,
                   logLikeJoint_sumSquared, means, alpha_new, runvars, sums,
                   linearGroup, groupIndex, counts, alpha, probVec, qvars,
                   logLikeGroup, loopvars>>

---------------------------------------------------------------------------
(* perform_MCMC: the loops around the calls *)

\* line 178-179: thinSwitch = 1, rep = 0; nothing else is assigned before the
\* loop
BeginBody ==
    /\ thinSwitch' = 1
    /\ rep' = 0
    /\ nSweeps' = 0
    /\ pc' = "rep_loop"
    /\ UNCHANGED <<inputs, replayvars, joint, means, alpha_new, runvars,
                   sums, linearGroup, groupIndex, counts, alpha, probVec, qvars,
                   logLikeGroup, thin>>

\* perform_MCMC is called on the object that has been reset
PerformMCMC_Begin ==
    /\ pc = "ready"
    /\ BeginBody

\* line 179: rep < burnin+samples; line 182: thin = 0
RepLoop ==
    /\ pc = "rep_loop"
    /\ IF rep < burnin + samples
       THEN thin' = 0 /\ pc' = "thin_loop"
       ELSE thin' = thin /\ pc' = "finish"
    /\ UNCHANGED <<inputs, replayvars, joint, means, alpha_new, runvars,
                   sums, linearGroup, groupIndex, counts, alpha, probVec, qvars,
                   logLikeGroup, rep, thinSwitch, nSweeps>>

\* line 182: thin < thinSwitch; line 185: group_update() is entered
ThinLoop ==
    /\ pc = "thin_loop"
    /\ IF thin < thinSwitch
       THEN /\ groupIndex' = -1
            /\ nSweeps' = nSweeps + 1
            /\ pc' = "group_update"
       ELSE /\ UNCHANGED <<groupIndex, nSweeps>>
            /\ pc' = "after_thin"
    /\ UNCHANGED <<inputs, replayvars, joint, means, alpha_new, runvars,
                   sums, linearGroup, counts, alpha, probVec, qvars,
                   logLikeGroup, rep, thin, thinSwitch>>

\* variant of ThinSwitchAfter: the switch is made one iteration early
ThinSwitchAfter_Early(r, ts) == IF r + 1 = burnin THEN thinning ELSE ts

\* lines 192-193: if (rep==burnin) thinSwitch = thinning
ThinSwitchAfter(r, ts) == IF r = burnin THEN thinning ELSE ts

\* lines 192-196
AfterThin ==
    /\ pc = "after_thin"
    /\ thinSwitch' = ThinSwitchAfter(rep, thinSwitch)
    /\ pc' = IF fixLabels THEN "produceQmatrix" ELSE "d_logLikeGroup"
    /\ UNCHANGED <<inputs, replayvars, joint, means, alpha_new, runvars,
                   sums, linearGroup, groupIndex, counts, alpha, probVec, qvars,
                   logLikeGroup, rep, thin, nSweeps>>

\* variant of RecordDue: the first recorded iteration is left out
RecordDue_Late(r) == r > burnin

\* line 221: if (rep>=burnin)
RecordDue(r) == r >= burnin

\* -x for a log value x
LogNeg(x) == <<x[2], x[1]>>

\* x + y for log values: the log of the product
LogPlus(x, y) == Log(x[1] * y[1], x[2] * y[2])

\* logSum(x, y) = log(exp(x) + exp(y))
LogSum(x, y) ==
    IF x = Log(0, 1) THEN y
    ELSE IF y = Log(0, 1) THEN x
    ELSE Log(x[1] * y[2] + y[1] * x[2], x[2] * y[2])

\* lines 220-257: the likelihood is added to the running sums when the
\* iteration is past the burn-in, and the iteration ends, rep++; the sum of
\* squares is kept as the bag of the values whose squares were added
Accumulate ==
    /\ pc = "accumulate"
    /\ IF RecordDue(rep)
       THEN /\ logLikeGroup_sum' = LogPlus(logLikeGroup_sum, logLikeGroup)
            /\ logLikeGroup_sumSquared' =
                  logLikeGroup_sumSquared (+) SetToBag({logLikeGroup})
            /\ logLikeGroup_store' =
                  IF storeLoglike
                  THEN [logLikeGroup_store EXCEPT ![rep - burnin + 1] = logLikeGroup]
                  ELSE logLikeGroup_store
            /\ harmonic' = LogSum(harmonic, LogNeg(logLikeGroup))
       ELSE UNCHANGED sums
    /\ IF RecordDue(rep) /\ drawAlleleFreqs
       THEN /\ logLikeJoint_sum' = logLikeJoint_sum (+) logLikeJoint
            /\ logLikeJoint_sumSquared' =
                  logLikeJoint_sumSquared (+) SetToBag({logLikeJoint})
       ELSE UNCHANGED <<logLikeJoint_sum, logLikeJoint_sumSquared>>
    /\ rep' = rep + 1
    /\ pc' = "rep_loop"
    /\ UNCHANGED <<inputs, replayvars, alleleFreqs, admixFreqs, logLikeJoint, means,
                   alpha_new, runvars, linearGroup, groupIndex, counts, alpha, probVec, qvars,
                   logLikeGroup, thin, thinSwitch, nSweeps>>

\* x - y for log values
LogMinus(x, y) == Log(x[1] * y[2], x[2] * y[1])

\* lines 260-312: with fixLabels, Qmatrix_gene = exp(logQmatrix_gene -
\* log(samples)) is assigned, and added into Qmatrix_ind, which is added into
\* Qmatrix_pop when outputQmatrix_pop_on; line 310: harmonic =
\* log(double(samples))-harmonic; then perform_MCMC returns
Finish ==
    /\ pc = "finish"
    /\ IF fixLabels
       THEN LET gene == [logQ |-> logQmatrix_gene, over |-> samples]
                ind == Append(Qmatrix_ind, gene)
            IN  /\ Qmatrix_gene' = gene
                /\ Qmatrix_ind' = ind
                /\ Qmatrix_pop' = IF outputQmatrix_pop_on
                                  THEN Append(Qmatrix_pop, ind)
                                  ELSE Qmatrix_pop
       ELSE UNCHANGED means
    /\ harmonic' = LogMinus(Log(samples, 1), harmonic)
    /\ runsDone' = runsDone + 1
    /\ lastReset' = "none"
    /\ pc' = "done"
    /\ UNCHANGED <<inputs, replayvars, joint, alpha_new, logLikeGroup_sum,
                   logLikeGroup_sumSquared, logLikeGroup_store, linearGroup,
                   groupIndex, counts, alpha, probVec, qvars, logLikeGroup,
                   loopvars>>

\* reset, the loops of perform_MCMC, group_update and the likelihoods
CoreSteps ==
    \/ \E r \in BOOLEAN : Reset(r)
    \/ PerformMCMC_Begin
    \/ RepLoop
    \/ ThinLoop
    \/ GroupUpdate_Detach
    \/ GroupUpdate_Attach
    \/ GroupUpdate_End
    \/ AfterThin
    \/ D_logLikeGroup
    \/ Accumulate
    \/ Finish

\* the steps made when drawAlleleFreqs is on
JointSteps ==
    \/ DrawFreqs
    \/ D_logLikeJoint

\* the Q matrix steps of the fixLabels block, the alignment apart
QmatrixSteps ==
    \/ ProduceQmatrix
    \/ UpdateQmatrix
    \/ StoreQmatrix

\* every step but the label alignment
StepsButAlign ==
    \/ CoreSteps
    \/ JointSteps
    \/ AlphaUpdate
    \/ QmatrixSteps

Next ==
    \/ StepsButAlign
    \/ ChooseBestLabelPermutation

Spec == Init /\ [][Next]_vars

---------------------------------------------------------------------------
(* The chain when hungarian is not relied upon to return a permutation *)

\* an array of K labels 0..K-1, a permutation or not
AnyLabelling == [0..(K - 1) -> 0..(K - 1)]

\* the chain this is run on
UncheckedChain ==
    [d |-> DataAllMissing, beta |-> BetaOne, fixLabels |-> TRUE, fixAlpha_on |-> 0,
     storeLoglike |-> FALSE, drawAlleleFreqs |-> TRUE,
     outputQmatrix_pop_on |-> FALSE]

InitUnchecked == InitChain(UncheckedChain)

\* chooseBestLabelPermutation with whatever array of labels comes back from
\* hungarian: lines 465-505 use it as it is
ChooseBestLabelPermutation_AnyResult ==
    /\ pc = "chooseBestLabelPermutation"
    /\ \E bp \in AnyLabelling : ApplyBestPerm(bp)

NextUnchecked ==
    \/ StepsButAlign
    \/ ChooseBestLabelPermutation_AnyResult

SpecUncheckedMatcher == InitUnchecked /\ [][NextUnchecked]_vars

---------------------------------------------------------------------------
(* alpha_update statement by statement, for any double rnorm1 may return *)

\* a magnitude from which a double absorbs the addition of 20: 2^58 or more,
\* where neighbouring doubles are 64 apart; on the grid it stands beyond every
\* other value
AlphaAbsorb == 1000 * AlphaDen

\* alpha_new += d as the double arithmetic does it
PlusDouble(x, d) ==
    IF x >= AlphaAbsorb \/ x <= 0 - AlphaAbsorb THEN x ELSE x + d

\* the values rnorm1(alpha, alphaPropSD) is drawn from: those of
\* AlphaProposals, and one of large magnitude of either sign
AlphaProposalsWide == AlphaProposals \cup {AlphaAbsorb, 0 - AlphaAbsorb}

\* line 407 and the test of line 410
AlphaUpdate_Propose ==
    /\ pc = "alpha_update"
    /\ \E prop \in AlphaProposalsWide :
          /\ alpha_new' = prop
          /\ pc' = IF prop < 0 \/ prop > AlphaMax THEN "alpha_wrap_up"
                   ELSE "alpha_accept"
    /\ UNCHANGED <<inputs, replayvars, joint, means, runvars, sums, linearGroup, groupIndex,
                   counts, alpha, probVec, qvars, logLikeGroup, loopvars>>

\* line 412: while (alpha_new< -10)
AlphaUpdate_WrapUpTest ==
    /\ pc = "alpha_wrap_up"
    /\ pc' = IF alpha_new < AlphaWrapLo THEN "alpha_wrap_up_body"
             ELSE "alpha_wrap_down"
    /\ UNCHANGED <<inputs, replayvars, joint, means, alpha_new, runvars, sums, linearGroup,
                   groupIndex, counts, alpha, probVec, qvars, logLikeGroup,
                   loopvars>>

\* line 413: alpha_new += 20
AlphaUpdate_WrapUpBody ==
    /\ pc = "alpha_wrap_up_body"
    /\ alpha_new' = PlusDouble(alpha_new, AlphaPeriod)
    /\ pc' = "alpha_wrap_up"
    /\ UNCHANGED <<inputs, replayvars, joint, means, runvars, sums, linearGroup, groupIndex,
                   counts, alpha, probVec, qvars, logLikeGroup, loopvars>>

\* line 414: while (alpha_new> 20)
AlphaUpdate_WrapDownTest ==
    /\ pc = "alpha_wrap_down"
    /\ pc' = IF alpha_new > AlphaWrapHi THEN "alpha_wrap_down_body"
             ELSE "alpha_fold"
    /\ UNCHANGED <<inputs, replayvars, joint, means, alpha_new, runvars, sums, linearGroup,
                   groupIndex, counts, alpha, probVec, qvars, logLikeGroup,
                   loopvars>>

\* line 415: alpha_new -= 20
AlphaUpdate_WrapDownBody ==
    /\ pc = "alpha_wrap_down_body"
    /\ alpha_new' = PlusDouble(alpha_new, 0 - AlphaPeriod)
    /\ pc' = "alpha_wrap_down"
    /\ UNCHANGED <<inputs, replayvars, joint, means, runvars, sums, linearGroup, groupIndex,
                   counts, alpha, probVec, qvars, logLikeGroup, loopvars>>

\* lines 418-421: one more reflection to bring into [0,10]
AlphaUpdate_Fold ==
    /\ pc = "alpha_fold"
    /\ LET f == IF alpha_new < 0 THEN 0 - alpha_new ELSE alpha_new
       IN  alpha_new' = IF f > AlphaMax THEN AlphaPeriod - f ELSE f
    /\ pc' = "alpha_accept"
    /\ UNCHANGED <<inputs, replayvars, joint, means, runvars, sums, linearGroup, groupIndex,
                   counts, alpha, probVec, qvars, logLikeGroup, loopvars>>

\* lines 425-443: 0 is replaced, the Metropolis step, and alpha_update returns
AlphaUpdate_Accept ==
    /\ pc = "alpha_accept"
    /\ \E accept \in BOOLEAN :
          alpha' = IF accept THEN NonZero(alpha_new) ELSE alpha
    /\ alpha_new' = 0
    /\ thin' = thin + 1
    /\ pc' = "thin_loop"
    /\ UNCHANGED <<inputs, replayvars, joint, means, runvars, sums, linearGroup, groupIndex,
                   counts, probVec, qvars, logLikeGroup, rep, thinSwitch, nSweeps>>

\* the chain this is run on
StepwiseChain ==
    [d |-> DataAllMissing, beta |-> BetaOne, fixLabels |-> FALSE, fixAlpha_on |-> 0,
     storeLoglike |-> FALSE, drawAlleleFreqs |-> FALSE,
     outputQmatrix_pop_on |-> FALSE]

InitStepwise == InitChain(StepwiseChain)

NextStepwise ==
    \/ CoreSteps
    \/ AlphaUpdate_Propose
    \/ AlphaUpdate_WrapUpTest
    \/ AlphaUpdate_WrapUpBody
    \/ AlphaUpdate_WrapDownTest
    \/ AlphaUpdate_WrapDownBody
    \/ AlphaUpdate_Fold
    \/ AlphaUpdate_Accept

\* the program is sequential and never waits: whenever it has a next
\* statement, it executes it
SpecStepwiseAlpha ==
    InitStepwise /\ [][NextStepwise]_vars /\ WF_vars(NextStepwise)

---------------------------------------------------------------------------
(* A second chain given the same draws: before each step the chain is
   copied; the step is made; the copy is then given the same draws and makes
   the step too *)

\* the chains this is run on: one that updates alpha, one that draws the
\* allele and admixture frequencies
ReplayChains ==
    {[d |-> DataOneCopy, beta |-> BetaHalf, fixLabels |-> TRUE, fixAlpha_on |-> 0,
      storeLoglike |-> TRUE, drawAlleleFreqs |-> FALSE,
      outputQmatrix_pop_on |-> TRUE],
     [d |-> DataOneCopy, beta |-> BetaOne, fixLabels |-> TRUE, fixAlpha_on |-> 1,
      storeLoglike |-> FALSE, drawAlleleFreqs |-> TRUE,
      outputQmatrix_pop_on |-> FALSE]}

InitReplay == \E c \in ReplayChains : InitChain(c)

\* everything the chain object holds and the locals of perform_MCMC; the
\* inputs are the same for both chains
ChainState ==
    [linearGroup |-> linearGroup,
     groupIndex |-> groupIndex,
     alleleCounts |-> alleleCounts,
     alleleCountsTotals |-> alleleCountsTotals,
     admixCounts |-> admixCounts,
     admixCountsTotals |-> admixCountsTotals,
     alpha |-> alpha,
     alpha_new |-> alpha_new,
     probVec |-> probVec,
     Qmatrix_gene_new |-> Qmatrix_gene_new,
     logQmatrix_gene_new |-> logQmatrix_gene_new,
     logQmatrix_gene_running |-> logQmatrix_gene_running,
     logQmatrix_gene |-> logQmatrix_gene,
     bestPerm |-> bestPerm,
     bestPermOrder |-> bestPermOrder,
     logLikeGroup |-> logLikeGroup,
     logLikeGroup_sum |-> logLikeGroup_sum,
     logLikeGroup_sumSquared |-> logLikeGroup_sumSquared,
     logLikeGroup_store |-> logLikeGroup_store,
     harmonic |-> harmonic,
     alleleFreqs |-> alleleFreqs,
     admixFreqs |-> admixFreqs,
     logLikeJoint |-> logLikeJoint,
     logLikeJoint_sum |-> logLikeJoint_sum,
     logLikeJoint_sumSquared |-> logLikeJoint_sumSquared,
     Qmatrix_gene |-> Qmatrix_gene,
     Qmatrix_ind |-> Qmatrix_ind,
     Qmatrix_pop |-> Qmatrix_pop,
     rep |-> rep,
     thin |-> thin,
     thinSwitch |-> thinSwitch,
     nSweeps |-> nSweeps,
     pc |-> pc,
     runsDone |-> runsDone,
     lastReset |-> lastReset]

\* reset (lines 131-141), sample1 (351), rnorm1 and runif1 (407, 441) and
\* rgamma1 (379, 391) consume draws; hungarian (463) draws nothing but its
\* answer is taken from outside src/ and is handed over like a draw
\* the draws the step at pc may be given
DrawsAt ==
    IF pc = "constructed"
    THEN {[NoTape EXCEPT !.r = r, !.grp = grp] :
             r \in BOOLEAN, grp \in [1..geneCopies -> Demes]}
    ELSE IF pc = "group_draw"
    THEN {[NoTape EXCEPT !.k1 = k1] : k1 \in Sample1(probVec)}
    ELSE IF pc = "alpha_update"
    THEN {[NoTape EXCEPT !.prop = prop, !.accept = accept] :
             prop \in AlphaProposals, accept \in BOOLEAN}
    ELSE IF pc = "chooseBestLabelPermutation"
    THEN {[NoTape EXCEPT !.bp = bp] : bp \in Hungarian}
    ELSE IF pc = "drawFreqs"
    THEN {[NoTape EXCEPT !.u = u] : u \in GammaDraws}
    ELSE {NoTape}

\* the chain is copied and the draws of its next step are fixed
TakeCopy ==
    /\ mode = "live"
    /\ pc # "done"
    /\ \E d \in DrawsAt : tape' = d
    /\ snap' = ChainState
    /\ mode' = "first"
    /\ UNCHANGED <<inputs, linearGroup, groupIndex, counts, alpha, alpha_new,
                   probVec, qvars, logLikeGroup, sums, joint, means, loopvars,
                   pc, runvars, goal>>

\* the step at pc, made with the draws of the tape
StepWithTape ==
    \/ pc = "constructed" /\ ResetWith(tape.r, tape.grp)
    \/ GroupUpdate_AttachWith(tape.k1)
    \/ AlphaUpdateWith(tape.prop, tape.accept)
    \/ pc = "chooseBestLabelPermutation" /\ ApplyBestPerm(tape.bp)
    \/ DrawFreqsWith(tape.u)
    \/ PerformMCMC_Begin
    \/ RepLoop
    \/ ThinLoop
    \/ GroupUpdate_Detach
    \/ GroupUpdate_End
    \/ AfterThin
    \/ ProduceQmatrix
    \/ UpdateQmatrix
    \/ StoreQmatrix
    \/ D_logLikeGroup
    \/ D_logLikeJoint
    \/ Accumulate
    \/ Finish

\* the first chain makes the step
FirstChainSteps ==
    /\ mode = "first"
    /\ pc = snap.pc
    /\ StepWithTape

\* the state the first chain reached is kept, and the copy takes its place
SecondChainStarts ==
    /\ mode = "first"
    /\ pc # snap.pc
    /\ goal' = ChainState
    /\ mode' = "second"
    /\ linearGroup' = snap.linearGroup
    /\ groupIndex' = snap.groupIndex
    /\ alleleCounts' = snap.alleleCounts
    /\ alleleCountsTotals' = snap.alleleCountsTotals
    /\ admixCounts' = snap.admixCounts
    /\ admixCountsTotals' = snap.admixCountsTotals
    /\ alpha' = snap.alpha
    /\ alpha_new' = snap.alpha_new
    /\ probVec' = snap.probVec
    /\ Qmatrix_gene_new' = snap.Qmatrix_gene_new
    /\ logQmatrix_gene_new' = snap.logQmatrix_gene_new
    /\ logQmatrix_gene_running' = snap.logQmatrix_gene_running
    /\ logQmatrix_gene' = snap.logQmatrix_gene
    /\ bestPerm' = snap.bestPerm
    /\ bestPermOrder' = snap.bestPermOrder
    /\ logLikeGroup' = snap.logLikeGroup
    /\ logLikeGroup_sum' = snap.logLikeGroup_sum
    /\ logLikeGroup_sumSquared' = snap.logLikeGroup_sumSquared
    /\ logLikeGroup_store' = snap.logLikeGroup_store
    /\ harmonic' = snap.harmonic
    /\ alleleFreqs' = snap.alleleFreqs
    /\ admixFreqs' = snap.admixFreqs
    /\ logLikeJoint' = snap.logLikeJoint
    /\ logLikeJoint_sum' = snap.logLikeJoint_sum
    /\ logLikeJoint_sumSquared' = snap.logLikeJoint_sumSquared
    /\ Qmatrix_gene' = snap.Qmatrix_gene
    /\ Qmatrix_ind' = snap.Qmatrix_ind
    /\ Qmatrix_pop' = snap.Qmatrix_pop
    /\ rep' = snap.rep
    /\ thin' = snap.thin
    /\ thinSwitch' = snap.thinSwitch
    /\ nSweeps' = snap.nSweeps
    /\ pc' = snap.pc
    /\ runsDone' = snap.runsDone
    /\ lastReset' = snap.lastReset
    /\ UNCHANGED <<inputs, tape, snap>>

\* the second chain makes the step
SecondChainSteps ==
    /\ mode = "second"
    /\ pc = snap.pc
    /\ StepWithTape

\* the second chain has made the step
SecondChainDone == mode = "second" /\ pc # snap.pc

\* the copy is dropped and the chain goes on
DropCopy ==
    /\ SecondChainDone
    /\ mode' = "live"
    /\ tape' = NoTape
    /\ snap' = NoSnap
    /\ goal' = NoSnap
    /\ UNCHANGED <<inputs, linearGroup, groupIndex, counts, alpha, alpha_new,
                   probVec, qvars, logLikeGroup, sums, joint, means, loopvars,
                   pc, runvars>>

NextReplay ==
    \/ TakeCopy
    \/ FirstChainSteps
    \/ SecondChainStarts
    \/ SecondChainSteps
    \/ DropCopy

SpecReplay == InitReplay /\ [][NextReplay]_vars

---------------------------------------------------------------------------
(* The object used for more than one run of perform_MCMC *)

\* the number of runs made on one object
MaxRuns == 2

\* the chain this is run on
RerunChain ==
    [d |-> DataDiploid, beta |-> BetaOne, fixLabels |-> TRUE, fixAlpha_on |-> 1,
     storeLoglike |-> FALSE, drawAlleleFreqs |-> FALSE,
     outputQmatrix_pop_on |-> TRUE]

InitRerun == InitChain(RerunChain)

\* reset is called again after perform_MCMC has returned
ResetAgain(reset_Qmatrix_running) ==
    /\ pc = "done"
    /\ runsDone < MaxRuns
    /\ ResetBody(reset_Qmatrix_running)

\* perform_MCMC is called again after it has returned, with no reset between
PerformMCMC_Again ==
    /\ pc = "done"
    /\ runsDone < MaxRuns
    /\ BeginBody

NextRerun ==
    \/ CoreSteps
    \/ QmatrixSteps
    \/ ChooseBestLabelPermutation
    \/ \E r \in BOOLEAN : ResetAgain(r)
    \/ PerformMCMC_Again

SpecRerun == InitRerun /\ [][NextRerun]_vars

---------------------------------------------------------------------------
(* Properties of the counts *)

\* a fresh recount of alleleCounts from the group vector
RecountAlleleCounts(grp) ==
    [k \in Demes |-> [l \in 1..loci |-> [j \in 1..J[l] |->
        Cardinality({g \in 1..geneCopies :
                        Copies[g][2] = l /\ Obs(g) = j /\ grp[g] = k})]]]

\* a fresh recount of admixCounts from the group vector
RecountAdmixCounts(grp) ==
    [i \in 1..n |-> [k \in Demes |->
        Cardinality({g \in 1..geneCopies :
                        Copies[g][1] = i /\ Obs(g) # 0 /\ grp[g] = k})]]

\* the non-missing gene copies of individual i
NonMissingOf(i) ==
    Cardinality({g \in 1..geneCopies : Copies[g][1] = i /\ Obs(g) # 0})

\* the observations of allele j at locus l
ObservationsOf(l, j) ==
    Cardinality({g \in 1..geneCopies : Copies[g][2] = l /\ Obs(g) = j})

\* group_update is not part-way through a sweep
SweepComplete ==
    /\ pc # "group_draw"
    /\ pc = "group_update" => groupIndex + 1 = geneCopies

\* the state just after a relabelling by a non-identity permutation
Relabelled == pc = "updateQmatrix" /\ PerformSwap(bestPerm)

\* C1: whenever no gene copy is taken out of the counts for its resample
\* (after reset, after each single gene-copy resample, after alpha_update and
\* after a relabelling), alleleCounts and admixCounts equal a fresh recount
\* from the group vector.
C1_CountsAreRecount ==
    pc # "group_draw" =>
        /\ alleleCounts = RecountAlleleCounts(linearGroup)
        /\ admixCounts = RecountAdmixCounts(linearGroup)

\* two observed gene copies sit in different demes just after a relabelling
\* by a permutation that is not its own inverse, in the last iteration
C1_Witness ==
    /\ Relabelled
    /\ bestPerm # bestPermOrder
    /\ rep = burnin + samples - 1
    /\ \E g1, g2 \in 1..geneCopies :
          /\ Obs(g1) # 0 /\ Obs(g2) # 0
          /\ linearGroup[g1] # linearGroup[g2]

\* C2: alleleCountsTotals[k][l] is the sum over alleles of alleleCounts[k][l]
\* after reset, after every completed sweep and after every relabelling.
C2_TotalsAreRowSums ==
    SweepComplete =>
        \A k \in Demes : \A l \in 1..loci :
            alleleCountsTotals[k][l] = SumSeq(alleleCounts[k][l])

\* a relabelled state whose demes have different totals, one of them holding
\* two gene copies
C2_Witness ==
    /\ Relabelled
    /\ \E k \in Demes : \E l \in 1..loci :
          /\ alleleCountsTotals[k][l] = 2
          /\ alleleCounts[k][l] = <<1, 1>>

\* C3: after reset, after every completed sweep and after every relabelling,
\* admixCountsTotals[i] is the sum over demes of admixCounts[i] and is the
\* number of non-missing gene copies of individual i.
C3_AdmixTotals ==
    (SweepComplete /\ pc # "constructed") =>
        \A i \in 1..n :
            /\ admixCountsTotals[i] = SumSeq(admixCounts[i])
            /\ admixCountsTotals[i] = NonMissingOf(i)

\* an individual with a missing and an observed gene copy, after a sweep and
\* a relabelling
C3_Witness ==
    /\ Relabelled
    /\ nSweeps >= 1
    /\ \E i \in 1..n :
          /\ ploidy_vec[i] * loci = 2
          /\ admixCountsTotals[i] = 1

\* C4: after reset and after any number of sweeps and relabellings, the sum
\* over demes of alleleCounts[k][l][j] is the number of observations of allele
\* j at locus l, and the grand total of alleleCounts equals the sum of
\* admixCountsTotals and the number of non-missing gene copies.
C4_AlleleSums ==
    (SweepComplete /\ pc # "constructed") =>
        /\ \A l \in 1..loci : \A j \in 1..J[l] :
              SumSeq([k \in Demes |-> alleleCounts[k][l][j]]) = ObservationsOf(l, j)
        /\ SumSeq([k \in Demes |->
                     SumSeq([l \in 1..loci |-> SumSeq(alleleCounts[k][l])])])
              = SumSeq(admixCountsTotals)
        /\ SumSeq(admixCountsTotals)
              = Cardinality({g \in 1..geneCopies : Obs(g) # 0})

\* two observed gene copies of one locus, carrying different alleles, share a
\* deme after two sweeps and a relabelling
C4_Witness ==
    /\ Relabelled
    /\ nSweeps >= 2
    /\ linearGroup[1] = linearGroup[2]
    /\ ObservationsOf(1, 1) = 1 /\ ObservationsOf(1, 2) = 1

---------------------------------------------------------------------------
(* Properties of the relabelling *)

\* the step of chooseBestLabelPermutation that applies a non-identity bestPerm
RelabelStep ==
    /\ pc = "chooseBestLabelPermutation"
    /\ pc' = "updateQmatrix"
    /\ PerformSwap(bestPerm')

\* C5: a relabelling by a non-identity permutation relabels everything by the
\* same permutation: the group of every gene copy becomes bestPerm of its old
\* group, and the new alleleCounts row, alleleCountsTotals row, admixCounts
\* column and logQmatrix_gene_new column at label bestPerm[k] are the old ones
\* at label k; bestPermOrder is the inverse of bestPerm.
C5_SamePermutationEverywhere ==
    [][RelabelStep =>
        /\ \A g \in 1..geneCopies :
              linearGroup'[g] = bestPerm'[linearGroup[g] - 1] + 1
        /\ \A k \in 0..(K - 1) :
              /\ bestPermOrder'[bestPerm'[k]] = k
              /\ alleleCounts'[bestPerm'[k] + 1] = alleleCounts[k + 1]
              /\ alleleCountsTotals'[bestPerm'[k] + 1] = alleleCountsTotals[k + 1]
              /\ \A i \in 1..n :
                    admixCounts'[i][bestPerm'[k] + 1] = admixCounts[i][k + 1]
              /\ \A g \in 1..geneCopies :
                    logQmatrix_gene_new'[g][bestPerm'[k] + 1]
                        = logQmatrix_gene_new[g][k + 1]
    ]_vars

\* just after a relabelling by a permutation that is not its own inverse, of
\* counts and logQmatrix_gene_new columns that differ between the demes
C5_Witness ==
    /\ Relabelled
    /\ bestPerm # bestPermOrder
    /\ alleleCounts[1] # alleleCounts[2]
    /\ alleleCounts[2] # alleleCounts[3]
    /\ \E g \in 1..geneCopies :
          logQmatrix_gene_new[g][1] # logQmatrix_gene_new[g][2]

\* the multiset of the per-deme rows (alleleCounts[k], alleleCountsTotals[k])
RowBag(ac, act) ==
    [r \in {<<ac[k], act[k]>> : k \in Demes} |->
        Cardinality({k \in Demes : <<ac[k], act[k]>> = r})]

\* C6: a relabelling leaves the multiset of the per-deme rows
\* (alleleCounts[k], alleleCountsTotals[k]) as it was, and d_logLikeGroup
\* computed just before and just after it gives the same value.
C6_RelabelKeepsLogLikeGroup ==
    [][RelabelStep =>
        /\ RowBag(alleleCounts', alleleCountsTotals')
              = RowBag(alleleCounts, alleleCountsTotals)
        /\ D_logLikeGroupValue(alleleCounts', alleleCountsTotals')
              = D_logLikeGroupValue(alleleCounts, alleleCountsTotals)
    ]_vars

\* logLikeGroup has been computed after a relabelling that moved a deme
\* holding two gene copies onto an empty one
C6_Witness ==
    /\ pc = "accumulate"
    /\ fixLabels
    /\ PerformSwap(bestPerm)
    /\ logLikeGroup = D_logLikeGroupValue(alleleCounts, alleleCountsTotals)
    /\ \E k \in Demes :
          /\ alleleCountsTotals[k] = <<2>>
          /\ alleleCountsTotals[bestPermOrder[k - 1] + 1] = <<0>>

---------------------------------------------------------------------------
(* Properties of alpha *)

\* C7: alpha starts in (0,10] and stays there whatever is proposed and
\* whether or not it is accepted: every proposal is reflected into [0,10],
\* and a reflected proposal of 0 becomes the least positive value.
C7_AlphaInRange ==
    /\ alpha > 0
    /\ alpha <= AlphaMax
    /\ \A prop \in AlphaProposals :
          /\ Reflect(prop) >= 0
          /\ Reflect(prop) <= AlphaMax

\* a proposal that reflects to 0 has been accepted, and a sweep follows
C7_Witness ==
    /\ alpha = Tiny
    /\ fixAlpha_on = 0
    /\ pc = "group_draw"
    /\ nSweeps >= 2

---------------------------------------------------------------------------
(* Properties of the Q matrix *)

\* the fractions of a row add up to 1
RowSumsToOne(row) ==
    SumSeq([k \in Demes |->
              row[k][1] * ProdSeq([m \in Demes |-> IF m = k THEN 1 ELSE row[m][2]])])
        = ProdSeq([k \in Demes |-> row[k][2]])

\* produceQmatrix has run in this iteration
AfterProduceQ == pc = "chooseBestLabelPermutation"

\* the label alignment has run in this iteration, and maybe updateQmatrix
AfterAlign == fixLabels /\ pc \in {"updateQmatrix", "storeQmatrix"}

\* C8 as stated: after produceQmatrix, after the label alignment and after
\* updateQmatrix, every row of Qmatrix_gene_new sums to 1 and
\* logQmatrix_gene_new[g][k] = log(Qmatrix_gene_new[g][k]).
C8_Original ==
    (AfterProduceQ \/ AfterAlign) =>
        \A g \in 1..geneCopies :
            /\ RowSumsToOne(Qmatrix_gene_new[g])
            /\ \A k \in Demes :
                  logQmatrix_gene_new[g][k]
                      = Log(Qmatrix_gene_new[g][k][1], Qmatrix_gene_new[g][k][2])

\* C8: after produceQmatrix every row of Qmatrix_gene_new sums to 1 and
\* logQmatrix_gene_new[g][k] = log(Qmatrix_gene_new[g][k]); after the label
\* alignment and after updateQmatrix the rows still sum to 1 and
\* logQmatrix_gene_new[g][k] = log(Qmatrix_gene_new[g][bestPermOrder[k]]),
\* Qmatrix_gene_new itself being left unpermuted.
C8_LogQIsLogOfPermutedQ ==
    /\ AfterProduceQ =>
          \A g \in 1..geneCopies :
              /\ RowSumsToOne(Qmatrix_gene_new[g])
              /\ \A k \in Demes :
                    logQmatrix_gene_new[g][k]
                        = Log(Qmatrix_gene_new[g][k][1], Qmatrix_gene_new[g][k][2])
    /\ AfterAlign =>
          \A g \in 1..geneCopies :
              /\ RowSumsToOne(Qmatrix_gene_new[g])
              /\ \A k \in Demes :
                    logQmatrix_gene_new[g][k]
                        = Log(Qmatrix_gene_new[g][bestPermOrder[k - 1] + 1][1],
                              Qmatrix_gene_new[g][bestPermOrder[k - 1] + 1][2])

\* after a relabelling, a logQmatrix_gene_new entry that is not the log of
\* the Qmatrix_gene_new entry at the same label
C8_Witness ==
    /\ Relabelled
    /\ \E g \in 1..geneCopies : \E k \in Demes :
          /\ logQmatrix_gene_new[g][k]
                # Log(Qmatrix_gene_new[g][k][1], Qmatrix_gene_new[g][k][2])
          /\ logQmatrix_gene_new[g][k]
                = Log(Qmatrix_gene_new[g][bestPermOrder[k - 1] + 1][1],
                      Qmatrix_gene_new[g][bestPermOrder[k - 1] + 1][2])

---------------------------------------------------------------------------
(* Properties of the driver loop *)

\* C9 as stated: an iteration with rep < burnin makes one sweep, one with
\* rep >= burnin makes thinning sweeps, burnin + samples*thinning in all.
C9_Original ==
    /\ pc = "after_thin" => thin = (IF rep < burnin THEN 1 ELSE thinning)
    /\ pc = "done" => nSweeps = burnin + samples * thinning

\* C9: an iteration with rep <= burnin makes exactly one sweep and one with
\* rep > burnin makes exactly thinning sweeps, so a chain with samples >= 1
\* makes burnin + 1 + (samples-1)*thinning sweeps in all.
C9_SweepsPerIteration ==
    /\ pc = "after_thin" => thin = (IF rep <= burnin THEN 1 ELSE thinning)
    /\ (pc = "done" /\ samples >= 1) =>
          nSweeps = burnin + 1 + (samples - 1) * thinning

\* the first recorded iteration has made its single sweep, thinning being
\* more than 1
C9_Witness ==
    /\ pc = "after_thin"
    /\ rep = burnin
    /\ thin = 1
    /\ thinning > 1
    /\ thinSwitch = 1

---------------------------------------------------------------------------
(* Properties of an all-missing dataset *)

AllMissing == \A g \in 1..geneCopies : Obs(g) = 0

\* C10: when every observation is missing, from reset on the four count
\* tensors are identically zero, and at every draw of group_update each of
\* the K weights is alpha: the allele factor is 1, whatever beta is.
C10_AllMissing ==
    (AllMissing /\ pc # "constructed") =>
        /\ alleleCounts = ZeroAlleleCounts
        /\ alleleCountsTotals = ZeroAlleleCountsTotals
        /\ admixCounts = ZeroAdmixCounts
        /\ admixCountsTotals = ZeroAdmixCountsTotals
        /\ pc = "group_draw" =>
              \A k \in Demes :
                  /\ probVec[k].adm = alpha
                  /\ probVec[k].pn = probVec[k].pd

\* a draw for an all-missing dataset with beta not 1, after a relabelling
\* and a change of alpha
C10_Witness ==
    /\ AllMissing
    /\ pc = "group_draw"
    /\ beta # BetaOne
    /\ PerformSwap(bestPerm)
    /\ alpha # AlphaDen
    /\ \E g1, g2 \in 1..geneCopies : linearGroup[g1] # linearGroup[g2]

---------------------------------------------------------------------------
(* Properties of the likelihood sums *)

\* the number of iterations recorded before iteration r
RecordedBefore(r) == IF r > burnin THEN r - burnin ELSE 0

\* sum over the values v of exp(-v), as a fraction <<numerator, denominator>>
RECURSIVE SumExpNeg(_)
SumExpNeg(vs) ==
    IF vs = <<>> THEN <<0, 1>>
    ELSE LET rest == SumExpNeg(Tail(vs))
             v == Head(vs)
         IN  <<v[2] * rest[2] + rest[1] * v[1], v[1] * rest[2]>>

\* the product of the fractions exp(v)
RECURSIVE ProdExp(_)
ProdExp(vs) ==
    IF vs = <<>> THEN <<1, 1>>
    ELSE <<Head(vs)[1] * ProdExp(Tail(vs))[1], Head(vs)[2] * ProdExp(Tail(vs))[2]>>

\* C12: from a reset chain, between iterations the sums hold one term for
\* each iteration r with burnin <= r < rep and none for a burn-in iteration,
\* the stored values being the logLikeGroup of those iterations; at the end of
\* perform_MCMC, with v_1..v_S the stored values, harmonic is
\* log S - log(sum of exp(-v_s)), logLikeGroup_sum is the sum of the v_s and
\* logLikeGroup_sumSquared the sum of their squares.
C12_SumsOfRecordedValues ==
    /\ pc = "rep_loop" =>
          /\ BagCardinality(logLikeGroup_sumSquared) = RecordedBefore(rep)
          /\ rep <= burnin =>
                /\ harmonic = Log(0, 1)
                /\ logLikeGroup_sum = Log(1, 1)
          /\ (rep > burnin /\ storeLoglike) =>
                /\ logLikeGroup_store[rep - burnin] = logLikeGroup
                /\ harmonic =
                      Log(SumExpNeg(SubSeq(logLikeGroup_store, 1, rep - burnin))[1],
                          SumExpNeg(SubSeq(logLikeGroup_store, 1, rep - burnin))[2])
    /\ (pc = "done" /\ storeLoglike) =>
          /\ harmonic = Log(samples * SumExpNeg(logLikeGroup_store)[2],
                            SumExpNeg(logLikeGroup_store)[1])
          /\ logLikeGroup_sum = Log(ProdExp(logLikeGroup_store)[1],
                                    ProdExp(logLikeGroup_store)[2])
          /\ logLikeGroup_sumSquared = BagOfSeq(logLikeGroup_store)

\* the end of a chain that recorded two different values of logLikeGroup
C12_Witness ==
    /\ pc = "done"
    /\ storeLoglike
    /\ burnin >= 1
    /\ \E i, j \in 1..samples : logLikeGroup_store[i] # logLikeGroup_store[j]
    /\ BagCardinality(logLikeGroup_sumSquared) = samples

---------------------------------------------------------------------------
(* Error handling *)

---------------------------------------------------------------------------
(* What each step leaves alone *)

\* C18: chooseBestLabelPermutation never changes logQmatrix_gene_running,
\* whatever permutation is chosen, nor admixCountsTotals; when the permutation
\* is the identity it changes none of linearGroup, the four count arrays and
\* logQmatrix_gene_new
C18_AlignmentFrame ==
    [][pc = "chooseBestLabelPermutation"
          => /\ logQmatrix_gene_running' = logQmatrix_gene_running
             /\ admixCountsTotals' = admixCountsTotals
             /\ (~PerformSwap(bestPerm')
                    => UNCHANGED <<linearGroup, counts, logQmatrix_gene_new>>)]_vars

\* an alignment in a later iteration has chosen the identity, on data with
\* observed alleles, and the running matrix has not yet been updated
C18_Witness ==
    /\ pc = "updateQmatrix"
    /\ ~PerformSwap(bestPerm)
    /\ rep >= 1
    /\ logQmatrix_gene_running.added = rep
    /\ \E i \in 1..n : admixCountsTotals[i] > 0

\* C19: linearGroup and the four count arrays are changed by reset,
\* group_update and chooseBestLabelPermutation only: alpha_update,
\* produceQmatrix, updateQmatrix, storeQmatrix, drawFreqs, d_logLikeGroup and
\* d_logLikeJoint leave all five as they are; group_update and
\* chooseBestLabelPermutation leave alpha as it is
C19_GroupAndCountsFrame ==
    [][/\ pc \in {"alpha_update", "produceQmatrix", "updateQmatrix",
                  "storeQmatrix", "drawFreqs", "d_logLikeGroup", "d_logLikeJoint"}
          => UNCHANGED <<linearGroup, counts>>
       /\ pc \in {"group_update", "group_draw", "chooseBestLabelPermutation"}
          => alpha' = alpha
       /\ (linearGroup' # linearGroup \/ counts' # counts)
          => pc \in {"constructed", "group_update", "group_draw",
                     "chooseBestLabelPermutation"}]_vars

\* frequencies have been drawn from counts that are not all equal and the
\* joint likelihood computed from them, in a later iteration
C19_Witness ==
    /\ pc = "accumulate"
    /\ drawAlleleFreqs
    /\ rep >= 1
    /\ logLikeJoint # EmptyBag
    /\ \E k \in Demes : alleleFreqs[k][1][1] # Frac(1, J[1])
    /\ \E i \in 1..n, k \in Demes : admixCounts[i][k] > 0

---------------------------------------------------------------------------
(* The weights of group_update *)

\* every entry of the four count arrays is >= 0
CountsNonNegative ==
    /\ \A k \in Demes, l \in 1..loci : alleleCountsTotals[k][l] >= 0
    /\ \A k \in Demes, l \in 1..loci : \A j \in 1..J[l] : alleleCounts[k][l][j] >= 0
    /\ \A i \in 1..n : admixCountsTotals[i] >= 0
    /\ \A i \in 1..n, k \in Demes : admixCounts[i][k] >= 0

\* C20: where group_update computes the weights, the current gene copy taken
\* out of the counts and not yet put back, no count is negative, every weight
\* probVec[k] is strictly positive, and so is their sum: every deme can be
\* drawn
C20_WeightsPositive ==
    pc = "group_draw"
       => /\ CountsNonNegative
          /\ \A k \in Demes : WeightPositive(probVec[k])
          /\ Sample1(probVec) = Demes

\* the copy taken out was the only one of its allele in its deme and the only
\* one of its individual there: both counts are down to 0, and beta is not 1
C20_Witness ==
    /\ pc = "group_draw"
    /\ beta = BetaHalf
    /\ nSweeps >= 2
    /\ LET g == groupIndex + 1
       IN  /\ Obs(g) # 0
           /\ admixCounts[Copies[g][1]][linearGroup[g]] = 0
           /\ alleleCounts[linearGroup[g]][Copies[g][2]][Obs(g)] = 0
           /\ alleleCountsTotals[linearGroup[g]][Copies[g][2]] = 0

---------------------------------------------------------------------------
(* The label-alignment steps of an iteration *)

QSteps == {"produceQmatrix", "chooseBestLabelPermutation", "updateQmatrix",
           "storeQmatrix"}

\* the iteration rep has passed updateQmatrix
PastUpdateQ == pc \in {"storeQmatrix", "d_logLikeGroup", "accumulate"}

\* the iteration rep has passed the place of storeQmatrix
PastStoreQ == pc \in {"d_logLikeGroup", "accumulate"}

\* with fixLabels on: how many updates logQmatrix_gene_running and
\* logQmatrix_gene have received, by the position in the run
QCountsByPosition ==
    (fixLabels /\ pc # "constructed")
       => /\ logQmatrix_gene_running.added = rep + (IF PastUpdateQ THEN 1 ELSE 0)
          /\ logQmatrix_gene.added =
                RecordedBefore(rep + (IF PastStoreQ THEN 1 ELSE 0))

\* with fixLabels on: after the sweeps come produceQmatrix,
\* chooseBestLabelPermutation and updateQmatrix in this order, storeQmatrix
\* exactly when rep >= burnin, and then the likelihood; none of them moves rep
QStepsInOrder ==
    fixLabels =>
       /\ pc = "after_thin" => pc' = "produceQmatrix"
       /\ pc = "produceQmatrix" => pc' = "chooseBestLabelPermutation"
       /\ pc = "chooseBestLabelPermutation" => pc' = "updateQmatrix"
       /\ pc = "updateQmatrix" =>
             pc' = (IF rep >= burnin THEN "storeQmatrix" ELSE "d_logLikeGroup")
       /\ pc = "storeQmatrix" => pc' = "d_logLikeGroup"
       /\ pc' \in QSteps => pc \in QSteps \cup {"after_thin"}
       /\ pc \in QSteps => rep' = rep

\* with fixLabels off: none of the steps is entered and, once reset has run,
\* the three log Q matrices stay as they are
QStepsOff ==
    ~fixLabels =>
       /\ pc' \notin QSteps
       /\ pc # "constructed" =>
             UNCHANGED <<logQmatrix_gene_running, logQmatrix_gene_new,
                         logQmatrix_gene>>

\* C17: with fixLabels on, every iteration, burn-in or not, does
\* produceQmatrix, chooseBestLabelPermutation and one update of
\* logQmatrix_gene_running, once each and in this order, after its sweeps;
\* logQmatrix_gene gets a contribution only when rep >= burnin, samples of
\* them in all; with fixLabels off none of this runs and the matrices never
\* change
C17_AlignmentSchedule ==
    /\ []QCountsByPosition
    /\ [][QStepsInOrder /\ QStepsOff]_vars

\* a chain with fixLabels on has ended: burnin + samples updates of the
\* running matrix, samples contributions to logQmatrix_gene
C17_Witness ==
    /\ fixLabels
    /\ pc = "done"
    /\ logQmatrix_gene_running.added = burnin + samples
    /\ logQmatrix_gene.added = samples

---------------------------------------------------------------------------
(* What a run of perform_MCMC starts from *)

\* the first sweep of a run is about to be made
FirstSweep == pc = "group_update" /\ nSweeps = 1 /\ groupIndex = -1

\* the likelihood sums are 0 and harmonic is log(0)
SumsClean ==
    /\ logLikeGroup_sum = Log(1, 1)
    /\ logLikeGroup_sumSquared = EmptyBag
    /\ harmonic = Log(0, 1)

\* logQmatrix_gene is log(0) everywhere, Qmatrix_ind and Qmatrix_pop are zero
QmatricesClean ==
    /\ logQmatrix_gene = [base |-> Log(0, 1), added |-> 0]
    /\ Qmatrix_ind = <<>>
    /\ Qmatrix_pop = <<>>

\* logQmatrix_gene_running is -log K everywhere
RunningClean == logQmatrix_gene_running = [base |-> Log(1, K), added |-> 0]

---------------------------------------------------------------------------
(* Replay *)

---------------------------------------------------------------------------
(* Termination *)

\* C15: a chain always runs to completion: perform_MCMC makes its burnin +
\* samples iterations and finishes, the reflection loops of alpha_update ending
\* for every finite proposal
C15_RunsToCompletion ==
    <>(pc = "done" /\ rep = burnin + samples)

=============================================================================
